---- MODULE Spec2Model ----
(***************************************************************************)
(* Model of MatrixPowerTriangularAtomic (MatrixPowerBase.h): the power T^p *)
(* of an upper-triangular matrix, with the Pade degree selector, the 2x2   *)
(* block solver, the scaling loop, the Pade evaluator and the unscaling.   *)
(*                                                                         *)
(* Numbers.  The input matrix has integer entries and the exponent is a    *)
(* natural number p; compute2x2 is also called with p * 2^(-k), written    *)
(* here as the pair (num, k) for num / 2^k.  A scalar is a pair            *)
(*   <<"num", x>>    the exact value x (an integer),                       *)
(*   <<"fin", 0>>    a finite value that is not tracked exactly,           *)
(*   <<"nonfin", 0>> an infinity or a NaN,                                 *)
(*   <<"old", 0>>    storage the engine has not written.                   *)
(* Arithmetic on exact values is exact; anything else is tracked only as   *)
(* finite / not finite / exactly zero.  The Scalar type is the complex     *)
(* instantiation (the one the driver uses after a complex Schur            *)
(* decomposition) restricted to real-valued entries.                       *)
(*                                                                         *)
(* Norms are counted in units of 1/2000, and are even, so that norm/2 is   *)
(* exact.  The tabulated thresholds are not multiples of the unit: the     *)
(* tables hold their floors (for <=) and MaxNormForPade their ceilings     *)
(* (for <), which decide every comparison with a norm on the grid exactly. *)
(***************************************************************************)
EXTENDS Integers, Sequences, FiniteSets, TLC

\* ------------------------------------------------------------ bounds
MaxDim == 3
MaxP == 3
MaxSqrt == 24
MaxSelectNorm == 1000
DiagVals == {-2, 1, 2, 4}
OffVals == {0, 5}
Precisions == {24, 53}

NormUnit == 2000

VARIABLES m_A, p, digits, res, pc,
          T, tNorm, IminusT, normIminusT, degree, degree2,
          numberOfSquareRoots, hasExtraSquareRoot,
          caseTaken, ops

vars == <<m_A, p, digits, res, pc, T, tNorm, IminusT, normIminusT, degree,
          degree2, numberOfSquareRoots, hasExtraSquareRoot, caseTaken, ops>>

\* ------------------------------------------------------------ scalars
Num(x) == <<"num", x>>
Fin == <<"fin", 0>>
NonFin == <<"nonfin", 0>>
Old == <<"old", 0>>
Zero == Num(0)
One == Num(1)

IsNum(x) == x[1] = "num"

Abs(x) == IF x < 0 THEN -x ELSE x

Pow2(k) == 2 ^ k

\* x ^ e for integers x and e >= 0 (std::pow(0, 0) is 1)
RECURSIVE IntPow(_, _)
IntPow(x, e) == IF e = 0 THEN 1 ELSE x * IntPow(x, e - 1)

\* F(x) and F(x, y) with the arguments evaluated first, once (call by value)
ByValue1(F(_), x) == CHOOSE r \in {F(a) : a \in {x}} : TRUE

ByValue2(F(_, _), x, y) == CHOOSE r \in {F(a, b) : a \in {x}, b \in {y}} : TRUE

\* the set of scalars; the arithmetic operations are functions on it, applied
\* to operands that are evaluated first
Scalar == ({"num"} \X Int) \cup {Fin, NonFin, Old}

NegF[a \in Scalar] == IF IsNum(a) THEN Num(-a[2]) ELSE a

Neg(x) == NegF[x]

AddF[a \in Scalar, b \in Scalar] ==
    IF a = NonFin \/ b = NonFin THEN NonFin
    ELSE IF IsNum(a) /\ IsNum(b) THEN Num(a[2] + b[2])
    ELSE IF a = Zero THEN b
    ELSE IF b = Zero THEN a
    ELSE Fin

Add(x, y) == AddF[x, y]

Sub(x, y) == Add(x, Neg(y))

\* 0 * inf is a NaN; 0 * finite is 0
MulF[a \in Scalar, b \in Scalar] ==
    IF a = NonFin \/ b = NonFin THEN NonFin
    ELSE IF a = Zero \/ b = Zero THEN Zero
    ELSE IF IsNum(a) /\ IsNum(b) THEN Num(a[2] * b[2])
    ELSE Fin

Mul(x, y) == MulF[x, y]

\* x / 0 is an infinity or a NaN.  An untracked divisor is a pivot of a
\* triangular solve or of the square root, which is finite and nonzero.
DivF[a \in Scalar, b \in Scalar] ==
    IF a = NonFin \/ b = NonFin \/ b = Zero THEN NonFin
    ELSE IF a = Zero THEN Zero
    ELSE IF IsNum(a) /\ IsNum(b)
         THEN IF Abs(a[2]) % Abs(b[2]) = 0
              THEN Num((IF (a[2] < 0) = (b[2] < 0) THEN 1 ELSE -1)
                       * (Abs(a[2]) \div Abs(b[2])))
              ELSE Fin
    ELSE Fin

Div(x, y) == DivF[x, y]

\* std::pow(x, num / 2^k) for an integer x
PowQ(x, num, k) ==
    IF num = 0 THEN One
    ELSE IF x = 1 THEN One
    ELSE IF x = 0 THEN (IF num > 0 THEN Zero ELSE NonFin)
    ELSE IF num > 0 /\ num % Pow2(k) = 0 THEN Num(IntPow(x, num \div Pow2(k)))
    ELSE Fin

\* (num / 2^k) * v
ScaleQ(num, k, v) ==
    IF v = NonFin THEN NonFin
    ELSE IF num = 0 \/ v = Zero THEN Zero
    ELSE IF IsNum(v) /\ Abs(num) % Pow2(k) = 0
         THEN Num((IF num < 0 THEN -1 ELSE 1) * (Abs(num) \div Pow2(k)) * v[2])
    ELSE Fin

\* ------------------------------------------------------------ matrices
\* A matrix is a function on Idx(n).  Dense(f) is f with its entries evaluated
\* (an assignment to a dense matrix), so that no entry is computed twice.
Dense(f) == f @@ << >>

Idx(n) == (1..n) \X (1..n)

Rows(M) == Cardinality({ij \in DOMAIN M : ij[1] = ij[2]})

Blank(n) == [ij \in Idx(n) |-> Old]

Identity(n) == [ij \in Idx(n) |-> IF ij[1] = ij[2] THEN One ELSE Zero]

\* m_A.template triangularView<Upper>() assigned to a dense matrix
UpperOf(M) ==
    ByValue1(LAMBDA A : Dense([ij \in DOMAIN A |->
                                 IF ij[1] <= ij[2] THEN A[ij] ELSE Zero]), M)

MatOfInts(M) == ByValue1(LAMBDA A : Dense([ij \in DOMAIN A |-> Num(A[ij])]), M)

MSub(X, Y) ==
    ByValue2(LAMBDA A, B : Dense([ij \in DOMAIN A |-> Sub(A[ij], B[ij])]), X, Y)

MAdd(X, Y) ==
    ByValue2(LAMBDA A, B : Dense([ij \in DOMAIN A |-> Add(A[ij], B[ij])]), X, Y)

MScale(c, X) ==
    ByValue2(LAMBDA a, B : Dense([ij \in DOMAIN B |-> Mul(a, B[ij])]), c, X)

\* the sum of f[lo], ..., f[hi] added in that order (zero when empty)
RECURSIVE SumTo(_, _, _)
SumTo(f, lo, hi) == IF lo > hi THEN Zero ELSE Add(f[lo], SumTo(f, lo + 1, hi))

\* res.template triangularView<Upper>() * res
UpperTimes(X) ==
    ByValue1(LAMBDA A :
               Dense([ij \in DOMAIN A |->
                        SumTo([k \in 1..Rows(A) |-> Mul(A[<<ij[1], k>>], A[<<k, ij[2]>>])],
                              ij[1], Rows(A))]),
             X)

\* IminusT.cwiseAbs().colwise().sum().maxCoeff() of a matrix of exact entries,
\* in norm units
ColSum(X, j) == SumTo([i \in 1..Rows(X) |-> Num(Abs(X[<<i, j>>][2]))], 1, Rows(X))[2]

NormOf(X) ==
    ByValue1(LAMBDA A :
               IF Rows(A) = 0 THEN 0
               ELSE LET sums == {ColSum(A, j) : j \in 1..Rows(A)}
                    IN NormUnit * (CHOOSE s \in sums : \A u \in sums : u <= s),
             X)

\* ------------------------------------------------------------ degree selector
\* maxNormForPade[] of the float and of the double overload, in norm units
MaxNormForPadeFloat == <<561, 867>>
MaxNormForPadeDouble == <<37, 120, 247, 399, 557>>

\* mutation: the loop compares with < where the code has <=
RECURSIVE PadeDegreeLoop_Strict(_, _, _, _)
PadeDegreeLoop_Strict(table, last, deg, norm) ==
    IF deg <= last
    THEN IF norm < table[deg - 2] THEN deg
         ELSE PadeDegreeLoop_Strict(table, last, deg + 1, norm)
    ELSE deg

\* for (; degree <= last; ++degree) if (norm <= table[degree - 3]) break;
RECURSIVE PadeDegreeLoop(_, _, _, _)
PadeDegreeLoop(table, last, deg, norm) ==
    IF deg <= last
    THEN IF norm <= table[deg - 2] THEN deg
         ELSE PadeDegreeLoop(table, last, deg + 1, norm)
    ELSE deg

matrix_power_get_pade_degree_float(norm) ==
    PadeDegreeLoop(MaxNormForPadeFloat, 4, 3, norm)

matrix_power_get_pade_degree_double(norm) ==
    PadeDegreeLoop(MaxNormForPadeDouble, 7, 3, norm)

\* overload resolution on RealScalar
matrix_power_get_pade_degree(dig, norm) ==
    IF dig <= 24 THEN matrix_power_get_pade_degree_float(norm)
    ELSE matrix_power_get_pade_degree_double(norm)

\* const RealScalar maxNormForPade of computeBig, in norm units
MaxNormForPade(dig) == IF dig <= 24 THEN 868 ELSE 558

\* ------------------------------------------------------------ 2x2 block solver
\* Im(log(x)) / pi for a real nonzero x, as the complex logarithm gives it
ImLog(x) == IF x < 0 THEN 1 ELSE 0

\* std::ceil((imag(logTdiag[i] - logTdiag[i-1]) - M_PI) / (2 * M_PI))
UnwindingNumber(eival, eival0) ==
    LET d == ImLog(eival) - ImLog(eival0) - 1
    IN -((-d) \div 2)

\* matrix_power_unwinder<Scalar>::run: w = atanh2(eival - eival0, eival + eival0)
\* + i*pi*u.  atanh2(x, y) is log((y + x)/(y - x))/2 = log(eival/eival0)/2, of
\* real part log|eival/eival0|/2.  Returned: Im(w) in units of pi/2.
matrix_power_unwinder(eival, eival0, unwindingNumber) ==
    (IF (eival < 0) # (eival0 < 0) THEN 1 ELSE 0) + 2 * unwindingNumber

Sign(m) == IF m % 2 = 0 THEN 1 ELSE -1

\* RealScalar(2) * std::exp(0.5*q*(logTdiag[i] + logTdiag[i-1])) * std::sinh(q*w)
\* for q = num / 2^k, evaluated in exact arithmetic.  With b = eival, a = eival0,
\* s = ImLog(a) + ImLog(b) and v = Im(w)/(pi/2) it is
\*   |b|^q * e^(i*pi*q*(s + v)/2) - |a|^q * e^(i*pi*q*(s - v)/2),
\* and s + v and s - v are even.
TwoExpSinh(eival, eival0, v, num, k) ==
    LET s == ImLog(eival) + ImLog(eival0)
        e == num \div Pow2(k)
    IN IF num % Pow2(k) = 0
       THEN Num(IntPow(Abs(eival), e) * Sign(e * ((s + v) \div 2))
                - IntPow(Abs(eival0), e) * Sign(e * ((s - v) \div 2)))
       ELSE Fin

\* mutation: the separation test compares with <= where the code has <
PairCase_AtLeastDouble(a, b) ==
    IF a = b THEN "equal"
    ELSE IF 2 * Abs(a) <= Abs(b) \/ 2 * Abs(b) <= Abs(a) THEN "direct"
    ELSE "sinh"

\* which of the three branches of compute2x2 the pair (i-1, i) takes
PairCase(a, b) ==
    IF a = b THEN "equal"
    ELSE IF 2 * Abs(a) < Abs(b) \/ 2 * Abs(b) < Abs(a) THEN "direct"
    ELSE "sinh"

\* the value compute2x2 stores in res(i-1, i); D is the diagonal it has stored
SuperDiag(A, D, i, num, k) ==
    LET a == A[<<i - 1, i - 1>>]
        b == A[<<i, i>>]
        t == A[<<i - 1, i>>]
    IN CASE PairCase(a, b) = "equal" ->
              ScaleQ(num, k, PowQ(t, num - Pow2(k), k))
         [] PairCase(a, b) = "direct" ->
              Div(Mul(Num(t), Sub(D[i], D[i - 1])), Num(b - a))
         [] OTHER ->
              LET w == matrix_power_unwinder(b, a, UnwindingNumber(b, a))
              IN Div(Mul(Num(t), TwoExpSinh(b, a, w, num, k)), Num(b - a))

\* compute2x2(res, num / 2^k) on the matrix A = m_A; r is res before the call
compute2x2(A, r, num, k) ==
    LET n == Rows(A)
        D == [i \in 1..n |-> PowQ(A[<<i, i>>], num, k)]
    IN Dense([ij \in DOMAIN r |->
          IF ij[1] = ij[2] THEN D[ij[1]]
          ELSE IF ij[2] = ij[1] + 1 THEN SuperDiag(A, D, ij[2], num, k)
          ELSE r[ij]])

CasesOf(A) == [i \in 2..Rows(A) |-> PairCase(A[<<i - 1, i - 1>>], A[<<i, i>>])]

\* ------------------------------------------------------------ Pade evaluator
\* U.template triangularView<Upper>().solve(B): back substitution, row i of the
\* solution from the rows below it
SolveRow(U, B, i, X) ==
    LET row == [j \in 1..Rows(U) |->
                  Div(Sub(B[<<i, j>>],
                          SumTo([k \in 1..Rows(U) |-> Mul(U[<<i, k>>], X[<<k, j>>])],
                                i + 1, Rows(U))),
                      U[<<i, i>>])]
    IN Dense([ij \in DOMAIN X |-> IF ij[1] = i THEN row[ij[2]] ELSE X[ij]])

RECURSIVE SolveRows(_, _, _, _)
SolveRows(U, B, i, X) ==
    IF i = 0 THEN X
    ELSE ByValue1(LAMBDA Xi : SolveRows(U, B, i - 1, Xi), SolveRow(U, B, i, X))

Solve(U, B) == ByValue2(LAMBDA Uv, Bv : SolveRows(Uv, Bv, Rows(Uv), Bv), U, B)

\* the coefficient of IminusT in step i of computePade
PadeCoefficient(q, i) ==
    IF i = 1 THEN Num(-q)
    ELSE IF i % 2 = 1 THEN Div(Num(-q - (i \div 2)), Num(i * 2))
    ELSE Div(Num(q - (i \div 2)), Num((i - 1) * 2))

\* for (--i; i; --i) res = (Identity + res).triangularView<Upper>().solve(c * IminusT)
RECURSIVE PadeLoop(_, _, _, _)
PadeLoop(i, X, r, q) ==
    IF i = 0 THEN r
    ELSE ByValue1(LAMBDA ri : PadeLoop(i - 1, X, ri, q),
                  Solve(UpperOf(MAdd(Identity(Rows(X)), r)),
                        MScale(PadeCoefficient(q, i), X)))

computePade(deg, X, q) ==
    ByValue1(LAMBDA Xv :
               MAdd(PadeLoop(deg * 2 - 1, Xv,
                             MScale(Div(Num(q - deg), Num((deg * 2 - 1) * 2)), Xv), q),
                    Identity(Rows(Xv))),
             X)

\* ------------------------------------------------------------ square root
\* MatrixSquareRootTriangular<MatrixType>(T).compute(sqrtT): the principal
\* square root R of an upper-triangular T, R*R = T, by super-diagonals:
\* R(i,i) = sqrt(T(i,i)), R(i,j) = (T(i,j) - sum_{i<k<j} R(i,k) R(k,j)) / (R(i,i) + R(j,j))
SqrtScalar(x) == IF x = Zero \/ x = One \/ x = NonFin THEN x ELSE Fin

SqrtDiagonal(M, d, R) ==
    Dense([ij \in DOMAIN R |->
             IF ij[2] - ij[1] # d THEN R[ij]
             ELSE Div(Sub(M[ij],
                          SumTo([k \in 1..Rows(M) |-> Mul(R[<<ij[1], k>>], R[<<k, ij[2]>>])],
                                ij[1] + 1, ij[2] - 1)),
                      Add(R[<<ij[1], ij[1]>>], R[<<ij[2], ij[2]>>]))])

RECURSIVE SqrtBand(_, _, _)
SqrtBand(M, d, R) ==
    IF d >= Rows(M) THEN R
    ELSE ByValue1(LAMBDA Rd : SqrtBand(M, d + 1, Rd), SqrtDiagonal(M, d, R))

MatrixSquareRootTriangular(M) ==
    ByValue1(LAMBDA Mv :
               SqrtBand(Mv, 1, Dense([ij \in DOMAIN Mv |->
                                        IF ij[1] = ij[2] THEN SqrtScalar(Mv[ij])
                                        ELSE Zero])),
             M)

\* the norms of I - sqrt(T) that a square root may produce from a T with
\* || I - T || = n: strictly nearer to 0, to one half or to one third of it
SqrtNorms(n) == {m \in {2 * (n \div 4), 2 * (n \div 6)} : m < n}

\* ------------------------------------------------------------ the engine
\* Inputs: an n x n upper-triangular integer matrix whose diagonal alternates
\* between two nonzero values and whose strictly upper part holds one value,
\* an exponent, a precision, and an output matrix not yet written.
InputMatrix(n, a, b, t) ==
    [ij \in Idx(n) |->
       IF ij[1] = ij[2] THEN (IF ij[1] % 2 = 1 THEN a ELSE b)
       ELSE IF ij[1] < ij[2] THEN t
       ELSE 0]

Locals(n) ==
    /\ T = Blank(n)
    /\ tNorm = 0
    /\ IminusT = Blank(n)
    /\ normIminusT = 0
    /\ degree = 0
    /\ degree2 = 0
    /\ numberOfSquareRoots = 0
    /\ hasExtraSquareRoot = FALSE
    /\ caseTaken = [i \in 2..n |-> "none"]
    /\ ops = << >>

Init ==
    \E n \in 0..MaxDim, a \in DiagVals, b \in DiagVals, t \in OffVals :
       /\ m_A = InputMatrix(n, a, b, t)
       /\ p \in 0..MaxP
       /\ digits \in Precisions
       /\ res = Blank(n)
       /\ pc = "start"
       /\ Locals(n)

Log(entry) == ops' = Append(ops, entry)

\* compute, case 0
ComputeEmpty ==
    /\ pc = "start"
    /\ Rows(m_A) = 0
    /\ pc' = "done"
    /\ UNCHANGED <<m_A, p, digits, res, T, tNorm, IminusT, normIminusT, degree,
                   degree2, numberOfSquareRoots, hasExtraSquareRoot, caseTaken, ops>>

\* compute, case 1
ComputeScalar ==
    /\ pc = "start"
    /\ Rows(m_A) = 1
    /\ res' = [res EXCEPT ![<<1, 1>>] = PowQ(m_A[<<1, 1>>], p, 0)]
    /\ pc' = "done"
    /\ UNCHANGED <<m_A, p, digits, T, tNorm, IminusT, normIminusT, degree,
                   degree2, numberOfSquareRoots, hasExtraSquareRoot, caseTaken, ops>>

\* mutation: case 2 is missing, a 2 x 2 matrix takes the default case
Compute2x2_AsDefault ==
    /\ pc = "start"
    /\ Rows(m_A) = 2
    /\ pc' = "loop"
    /\ T' = UpperOf(MatOfInts(m_A))
    /\ tNorm' = NormOf(MSub(Identity(Rows(m_A)), UpperOf(MatOfInts(m_A))))
    /\ numberOfSquareRoots' = 0
    /\ hasExtraSquareRoot' = FALSE
    /\ UNCHANGED <<m_A, p, digits, res, IminusT, normIminusT, degree, degree2,
                   caseTaken, ops>>

\* compute, case 2
Compute2x2 ==
    /\ pc = "start"
    /\ Rows(m_A) = 2
    /\ pc' = "done"
    /\ res' = compute2x2(m_A, res, p, 0)
    /\ caseTaken' = CasesOf(m_A)
    /\ Log(<<"pass", 0>>)
    /\ UNCHANGED <<m_A, p, digits, T, tNorm, IminusT, normIminusT, degree,
                   degree2, numberOfSquareRoots, hasExtraSquareRoot>>

\* compute, default case: computeBig up to the head of its while loop
ComputeBig ==
    /\ pc = "start"
    /\ Rows(m_A) > 2
    /\ pc' = "loop"
    /\ T' = UpperOf(MatOfInts(m_A))
    /\ tNorm' = NormOf(MSub(Identity(Rows(m_A)), UpperOf(MatOfInts(m_A))))
    /\ numberOfSquareRoots' = 0
    /\ hasExtraSquareRoot' = FALSE
    /\ UNCHANGED <<m_A, p, digits, res, IminusT, normIminusT, degree, degree2,
                   caseTaken, ops>>

\* mutation: the norm is compared with the single-precision bound whatever
\* the precision
InRange_SingleBound(norm) == norm < MaxNormForPade(24)

\* if (normIminusT < maxNormForPade)
InRange(norm) == norm < MaxNormForPade(digits)

\* mutation: && where the code has ||
BreakCondition_And(d, d2, extra) == d - d2 <= 1 /\ extra

\* if (degree - degree2 <= 1 || hasExtraSquareRoot) break;
BreakCondition(d, d2, extra) == d - d2 <= 1 \/ extra

Stops ==
    /\ InRange(tNorm)
    /\ BreakCondition(matrix_power_get_pade_degree(digits, tNorm),
                      matrix_power_get_pade_degree(digits, tNorm \div 2),
                      hasExtraSquareRoot)

\* one iteration of the while loop that ends in the break
ScalingBreak ==
    /\ pc = "loop"
    /\ Stops
    /\ pc' = "pade"
    /\ IminusT' = MSub(Identity(Rows(m_A)), T)
    /\ normIminusT' = tNorm
    /\ degree' = matrix_power_get_pade_degree(digits, tNorm)
    /\ degree2' = matrix_power_get_pade_degree(digits, tNorm \div 2)
    /\ UNCHANGED <<m_A, p, digits, res, T, tNorm, numberOfSquareRoots,
                   hasExtraSquareRoot, caseTaken, ops>>

\* mutation: the square root is computed and counted but not assigned to T
ScalingSqrt_KeepsT ==
    /\ pc = "loop"
    /\ ~Stops
    /\ numberOfSquareRoots < MaxSqrt
    /\ numberOfSquareRoots' = numberOfSquareRoots + 1
    /\ IminusT' = MSub(Identity(Rows(m_A)), T)
    /\ normIminusT' = tNorm
    /\ IF InRange(tNorm)
       THEN /\ degree' = matrix_power_get_pade_degree(digits, tNorm)
            /\ degree2' = matrix_power_get_pade_degree(digits, tNorm \div 2)
            /\ hasExtraSquareRoot' = TRUE
       ELSE UNCHANGED <<degree, degree2, hasExtraSquareRoot>>
    /\ Log(<<"sqrt", 0>>)
    /\ UNCHANGED <<m_A, p, digits, res, pc, T, tNorm, caseTaken>>

\* one iteration of the while loop that takes a square root
ScalingSqrt ==
    /\ pc = "loop"
    /\ ~Stops
    /\ numberOfSquareRoots < MaxSqrt
    /\ numberOfSquareRoots' = numberOfSquareRoots + 1
    /\ IminusT' = MSub(Identity(Rows(m_A)), T)
    /\ normIminusT' = tNorm
    /\ IF InRange(tNorm)
       THEN /\ degree' = matrix_power_get_pade_degree(digits, tNorm)
            /\ degree2' = matrix_power_get_pade_degree(digits, tNorm \div 2)
            /\ hasExtraSquareRoot' = TRUE
       ELSE UNCHANGED <<degree, degree2, hasExtraSquareRoot>>
    /\ T' = UpperOf(MatrixSquareRootTriangular(T))
    /\ tNorm' \in SqrtNorms(tNorm)
    /\ Log(<<"sqrt", 0>>)
    /\ UNCHANGED <<m_A, p, digits, res, pc, caseTaken>>

\* computePade(degree, IminusT, res, p)
Pade ==
    /\ pc = "pade"
    /\ pc' = "unscale"
    /\ res' = computePade(degree, IminusT, p)
    /\ Log(<<"pade", degree>>)
    /\ UNCHANGED <<m_A, p, digits, T, tNorm, IminusT, normIminusT, degree, degree2,
                   numberOfSquareRoots, hasExtraSquareRoot, caseTaken>>

\* mutation: the pass of the unscaling loop scales p by one power of two less
UnscalePass_OffByOne ==
    /\ pc = "unscale"
    /\ numberOfSquareRoots # 0
    /\ pc' = "square"
    /\ res' = compute2x2(m_A, res, p, numberOfSquareRoots - 1)
    /\ caseTaken' = CasesOf(m_A)
    /\ Log(<<"pass", numberOfSquareRoots - 1>>)
    /\ UNCHANGED <<m_A, p, digits, T, tNorm, IminusT, normIminusT, degree, degree2,
                   numberOfSquareRoots, hasExtraSquareRoot>>

\* the unscaling loop: compute2x2(res, std::ldexp(p, -numberOfSquareRoots))
UnscalePass ==
    /\ pc = "unscale"
    /\ numberOfSquareRoots # 0
    /\ pc' = "square"
    /\ res' = compute2x2(m_A, res, p, numberOfSquareRoots)
    /\ caseTaken' = CasesOf(m_A)
    /\ Log(<<"pass", numberOfSquareRoots>>)
    /\ UNCHANGED <<m_A, p, digits, T, tNorm, IminusT, normIminusT, degree, degree2,
                   numberOfSquareRoots, hasExtraSquareRoot>>

\* the unscaling loop: res = res.triangularView<Upper>() * res; --numberOfSquareRoots
UnscaleSquare ==
    /\ pc = "square"
    /\ pc' = "unscale"
    /\ res' = UpperTimes(res)
    /\ numberOfSquareRoots' = numberOfSquareRoots - 1
    /\ Log(<<"square", 0>>)
    /\ UNCHANGED <<m_A, p, digits, T, tNorm, IminusT, normIminusT, degree, degree2,
                   hasExtraSquareRoot, caseTaken>>

\* compute2x2(res, p) after the unscaling loop
FinalPass ==
    /\ pc = "unscale"
    /\ numberOfSquareRoots = 0
    /\ pc' = "done"
    /\ res' = compute2x2(m_A, res, p, 0)
    /\ caseTaken' = CasesOf(m_A)
    /\ Log(<<"pass", 0>>)
    /\ UNCHANGED <<m_A, p, digits, T, tNorm, IminusT, normIminusT, degree, degree2,
                   numberOfSquareRoots, hasExtraSquareRoot>>

Next ==
    \/ ComputeEmpty
    \/ ComputeScalar
    \/ Compute2x2
    \/ ComputeBig
    \/ ScalingBreak
    \/ ScalingSqrt
    \/ Pade
    \/ UnscalePass
    \/ UnscaleSquare
    \/ FinalPass

Spec == Init /\ [][Next]_vars

\* the engine runs to completion: a sequential computation takes its next step
FairSpec == Spec /\ WF_vars(Next)

\* ------------------------------------------------------------ the selector alone
InitSelect ==
    /\ m_A = InputMatrix(0, 1, 1, 0)
    /\ p = 0
    /\ digits \in Precisions
    /\ res = Blank(0)
    /\ pc = "select"
    /\ T = Blank(0)
    /\ tNorm = 0
    /\ IminusT = Blank(0)
    /\ normIminusT \in 0..MaxSelectNorm
    /\ degree = 0
    /\ degree2 = 0
    /\ numberOfSquareRoots = 0
    /\ hasExtraSquareRoot = FALSE
    /\ caseTaken = [i \in 2..0 |-> "none"]
    /\ ops = << >>

\* degree = matrix_power_get_pade_degree(normIminusT)
SelectDegree ==
    /\ pc = "select"
    /\ degree' = matrix_power_get_pade_degree(digits, normIminusT)
    /\ pc' = "selected"
    /\ UNCHANGED <<m_A, p, digits, res, T, tNorm, IminusT, normIminusT, degree2,
                   numberOfSquareRoots, hasExtraSquareRoot, caseTaken, ops>>

NextSelect == SelectDegree

SpecSelect == InitSelect /\ [][NextSelect]_vars

\* ------------------------------------------------------------ properties
n == Rows(m_A)

Diag(i) == m_A[<<i, i>>]

Sup(i) == m_A[<<i - 1, i>>]

Count(kind) == Cardinality({i \in 1..Len(ops) : ops[i][1] = kind})

\* the largest degree the tables of the precision hold
MaxDegree(dig) == IF dig <= 24 THEN 4 ELSE 7

\* C1: after compute, every adjacent diagonal pair with equal entries e has the
\* super-diagonal output p * pow(e, p-1) * T[i-1,i] (so [[2,5],[0,2]]^3 has 60).
C1_EqualPair ==
    (pc = "done" /\ n >= 2) =>
       \A i \in 2..n :
          Diag(i - 1) = Diag(i) =>
             res[<<i - 1, i>>] =
                (IF p = 0 THEN Zero ELSE Num(p * IntPow(Diag(i), p - 1) * Sup(i)))

\* C2: for sizes 1 and 2, compute(output, 1) leaves T and compute(output, 0)
\* leaves the identity, exactly on the diagonal and the super-diagonal.
C2_PowerOneAndZero ==
    (pc = "done" /\ n \in {1, 2}) =>
       /\ p = 1 =>
             /\ \A i \in 1..n : res[<<i, i>>] = Num(Diag(i))
             /\ \A i \in 2..n : res[<<i - 1, i>>] = Num(Sup(i))
       /\ p = 0 =>
             /\ \A i \in 1..n : res[<<i, i>>] = One
             /\ \A i \in 2..n : res[<<i - 1, i>>] = Zero

IsDiagonal == \A ij \in DOMAIN m_A : ij[1] # ij[2] => m_A[ij] = 0

\* C3: for a diagonal T the output has pow(T[k,k], p) on the diagonal and exactly
\* zero everywhere else in the upper triangle, whatever case each pair takes.
C3_DiagonalInput ==
    (pc = "done" /\ IsDiagonal) =>
       /\ \A i \in 1..n : res[<<i, i>>] = Num(IntPow(Diag(i), p))
       /\ \A ij \in DOMAIN res : ij[1] < ij[2] => res[ij] = Zero

\* C4: compute dispatches on the dimension: nothing written for 0, only
\* pow(T[0,0], p) for 1, only the block solver (no square root, no Pade) for 2,
\* the scaling loop above 2; and T is never modified.
C4_Dispatch ==
    /\ [](pc = "done" =>
            /\ n = 0 => (res = Blank(0) /\ ops = << >>)
            /\ n = 1 => (res[<<1, 1>>] = Num(IntPow(Diag(1), p)) /\ ops = << >>)
            /\ n = 2 => /\ ops = << <<"pass", 0>> >>
                        /\ res[<<2, 1>>] = Old
                        /\ res[<<1, 1>>] = Num(IntPow(Diag(1), p))
                        /\ res[<<2, 2>>] = Num(IntPow(Diag(2), p))
            /\ n <= 2 => (T = Blank(n) /\ Count("sqrt") = 0 /\ Count("pade") = 0)
            /\ n > 2 => (T # Blank(n) /\ Count("pade") = 1))
    /\ [][m_A' = m_A]_vars

C4_Witness ==
    /\ pc = "done"
    /\ n = 2
    /\ ops = << <<"pass", 0>> >>
    /\ res[<<1, 1>>] = Num(8)

\* C5: once in the scaling loop the engine eventually finishes: the loop has
\* reached its break, the Pade evaluation has run (once), and the unscaling has
\* ended after exactly as many squarings as square roots were taken.
C5_Terminates ==
    (pc = "loop") ~> (pc = "done" /\ Count("pade") = 1 /\ numberOfSquareRoots = 0
                        /\ Count("square") = Count("sqrt"))

C5_Witness ==
    /\ pc = "done"
    /\ n > 2
    /\ Count("sqrt") >= 3
    /\ Count("square") = Count("sqrt")

\* the smallest degree of the table whose threshold admits the norm, if any
Admits(table, d, norm) == norm <= table[d - 2]

TableOf(dig) == IF dig <= 24 THEN MaxNormForPadeFloat ELSE MaxNormForPadeDouble

SmallestAdmitting(dig, norm) ==
    {d \in 3..MaxDegree(dig) :
        /\ Admits(TableOf(dig), d, norm)
        /\ \A e \in 3..(d - 1) : ~Admits(TableOf(dig), e, norm)}

\* C6 as stated: the selector returns the smallest admitting degree, or the
\* maximum degree when the norm exceeds every threshold; so within [3, max].
C6_Original ==
    pc = "selected" =>
       /\ degree \in 3..MaxDegree(digits)
       /\ IF SmallestAdmitting(digits, normIminusT) # {}
          THEN degree \in SmallestAdmitting(digits, normIminusT)
          ELSE degree = MaxDegree(digits)

\* C6 amended: the selector returns the smallest admitting degree, or the
\* maximum degree plus one when the norm exceeds every threshold.
C6_Amended ==
    pc = "selected" =>
       /\ degree \in 3..(MaxDegree(digits) + 1)
       /\ IF SmallestAdmitting(digits, normIminusT) # {}
          THEN degree \in SmallestAdmitting(digits, normIminusT)
          ELSE degree = MaxDegree(digits) + 1

C6_Witness ==
    /\ pc = "selected"
    /\ digits = 53
    /\ SmallestAdmitting(digits, normIminusT) = {}
    /\ degree = 8

\* C7: the degree handed to computePade is the selector's value for the final
\* norm, which is below the largest threshold, and lies in [3, maxDegree].
C7_PadeDegree ==
    \A i \in 1..Len(ops) :
       ops[i][1] = "pade" =>
          /\ ops[i][2] \in 3..MaxDegree(digits)
          /\ ops[i][2] = matrix_power_get_pade_degree(digits, normIminusT)
          /\ normIminusT <= TableOf(digits)[Len(TableOf(digits))]

C7_Witness ==
    /\ pc = "done"
    /\ digits = 53
    /\ \E i \in 1..Len(ops) : ops[i] = <<"pade", 7>>

\* the degrees of the current iteration of the scaling loop
DegreeNow == matrix_power_get_pade_degree(digits, tNorm)

Degree2Now == matrix_power_get_pade_degree(digits, tNorm \div 2)

BelowLargest == tNorm <= TableOf(digits)[Len(TableOf(digits))]

\* C8 as stated: the first time d - d2 <= 1 holds the loop does not stop but
\* takes one more square root.  (The loop ends the first time it stops, so an
\* iteration that evaluates d - d2 <= 1 with no extra square root taken so far
\* is the first on which it holds.)
C8_Original ==
    [][(pc = "loop" /\ BelowLargest /\ DegreeNow - Degree2Now <= 1
          /\ ~hasExtraSquareRoot)
       => (pc' = "loop" /\ numberOfSquareRoots' = numberOfSquareRoots + 1)]_vars

\* C8 amended: d and d2 are evaluated on the iterations whose norm is below the
\* largest threshold.  On such an iteration the loop stops at once, with
\* degree = d, if d - d2 <= 1 or if the extra square root has been taken;
\* otherwise (d - d2 > 1, the first time) it takes the one extra square root.
\* On every iteration where it does not stop it replaces W by its square root
\* and increments scalingCount by one.
C8_Amended ==
    [][pc = "loop" =>
         IF BelowLargest /\ (DegreeNow - Degree2Now <= 1 \/ hasExtraSquareRoot)
         THEN /\ pc' = "pade"
              /\ degree' = DegreeNow
              /\ numberOfSquareRoots' = numberOfSquareRoots
              /\ T' = T
              /\ hasExtraSquareRoot' = hasExtraSquareRoot
         ELSE /\ pc' = "loop"
              /\ numberOfSquareRoots' = numberOfSquareRoots + 1
              /\ T' = UpperOf(MatrixSquareRootTriangular(T))
              /\ hasExtraSquareRoot' = (hasExtraSquareRoot \/ BelowLargest)]_vars

C8_Witness ==
    /\ pc = "pade"
    /\ hasExtraSquareRoot
    /\ numberOfSquareRoots >= 2

\* the operations of the unscaling phase after s square roots
Unscaling(s) ==
    [i \in 1..(2 * s + 1) |->
       IF i % 2 = 1 THEN <<"pass", s - (i \div 2)>> ELSE <<"square", 0>>]

AfterPade == SubSeq(ops, Count("sqrt") + 2, Len(ops))

\* C9: after the Pade evaluation, with s square roots taken, the operations are
\* pass at p*2^-s, squaring, pass at p*2^-(s-1), squaring, ..., pass at p*2^-1,
\* squaring, pass at p: s squarings, s + 1 passes, the last operation a pass.
C9_Unscaling ==
    (n > 2 /\ pc \in {"unscale", "square", "done"}) =>
       /\ Len(AfterPade) <= 2 * Count("sqrt") + 1
       /\ AfterPade = SubSeq(Unscaling(Count("sqrt")), 1, Len(AfterPade))
       /\ pc = "done" => AfterPade = Unscaling(Count("sqrt"))

C9_Witness ==
    /\ pc = "done"
    /\ n > 2
    /\ Count("sqrt") = 3
    /\ AfterPade = << <<"pass", 3>>, <<"square", 0>>, <<"pass", 2>>, <<"square", 0>>,
                      <<"pass", 1>>, <<"square", 0>>, <<"pass", 0>> >>

\* the direct divided difference of the pair (i-1, i) over the stored diagonal
DividedDifference(i) ==
    Div(Mul(Num(Sup(i)), Sub(res[<<i, i>>], res[<<i - 1, i - 1>>])),
        Num(Diag(i) - Diag(i - 1)))

\* C10 as stated: an unequal pair takes exactly one of the two remaining cases,
\* the direct divided difference whenever one magnitude is at least double the
\* other (the boundary included), the sinh formula only otherwise.
C10_Original ==
    pc = "done" =>
       \A i \in 2..n :
          Diag(i - 1) # Diag(i) =>
             /\ caseTaken[i] \in {"direct", "sinh"}
             /\ caseTaken[i] = "direct" <=>
                   (Abs(Diag(i)) >= 2 * Abs(Diag(i - 1))
                      \/ Abs(Diag(i - 1)) >= 2 * Abs(Diag(i)))
             /\ caseTaken[i] = "direct" => res[<<i - 1, i>>] = DividedDifference(i)

\* C10 amended: an unequal pair takes exactly one of the two remaining cases,
\* the direct divided difference whenever one magnitude is more than double the
\* other; where it is exactly double, and otherwise, the sinh formula.
C10_Amended ==
    pc = "done" =>
       \A i \in 2..n :
          Diag(i - 1) # Diag(i) =>
             /\ caseTaken[i] \in {"direct", "sinh"}
             /\ caseTaken[i] = "direct" <=>
                   (Abs(Diag(i)) > 2 * Abs(Diag(i - 1))
                      \/ Abs(Diag(i - 1)) > 2 * Abs(Diag(i)))
             /\ caseTaken[i] = "direct" => res[<<i - 1, i>>] = DividedDifference(i)

C10_Witness ==
    /\ pc = "done"
    /\ n = 2
    /\ Diag(1) = -2
    /\ Diag(2) = 4
    /\ caseTaken[2] = "sinh"

====
